---- MODULE Spec2Model ----
(***************************************************************************)
(* Model of the Gitiles commit crawler (src/main.go): the HTML field       *)
(* extractors, the "Reviewed-by:" trailer parser, the contribution map and *)
(* the traversal loop of run().                                            *)
(*                                                                         *)
(* Go strings are sequences of one-character strings.  A parsed document   *)
(* (the result of html.Parse) is a sequence of nodes numbered in document  *)
(* pre-order; a node carries the html.Node fields the code reads (Type,    *)
(* Data, Attr, Parent), and FirstChild / NextSibling are derived from      *)
(* Parent.  Node 1 is the document node; 0 stands for a nil *html.Node.    *)
(* html.Parse does not fail on a string it can read to the end, so an      *)
(* extractor's argument is the parsed document.                            *)
(***************************************************************************)
EXTENDS Integers, Sequences, FiniteSets, TLC

VARIABLES pc, cnumber, i, m, p, link, cmt, msg, conts, writes, fetched, err,
          visited, nCreation, nReview, tree, arg, op, out

runVars == <<pc, cnumber, i, m, p, link, cmt, msg, conts, writes, fetched, err,
             visited, nCreation, nReview>>
callVars == <<tree, arg, op, out>>
vars == <<pc, cnumber, i, m, p, link, cmt, msg, conts, writes, fetched, err,
          visited, nCreation, nReview, tree, arg, op, out>>

(***************************************************************************)
(* Bounds of the model.                                                    *)
(***************************************************************************)
MaxCommits == 3
MaxLabelNodes == 5
MaxMsgNodes == 5
MaxLinkNodes == 4
MaxPieces == 5

(***************************************************************************)
(* String literals of the program.                                         *)
(***************************************************************************)
S_commit == <<"c","o","m","m","i","t">>
S_author == <<"a","u","t","h","o","r">>
S_parent == <<"p","a","r","e","n","t">>
S_a == <<"a">>
S_pre == <<"p","r","e">>
S_href == <<"h","r","e","f">>
S_slash == <<"/">>
S_plus == <<"/","+","/">>
S_dotcommit == <<".","c","o","m","m","i","t">>
S_origin == <<"h","t","t","p","s",":","/","/","c","h","r","o","m","i","u","m",".",
              "g","o","o","g","l","e","s","o","u","r","c","e",".","c","o","m">>
S_reviewedby == <<"R","e","v","i","e","w","e","d","-","b","y",":"," ">>
S_newline == <<"\n">>
S_csvheader == <<"c","o","n","t","r","i","b","u","t","o","r",",","c","r","e","a",
                 "t","e","d",",","r","e","v","i","e","w","e","d">>
PrefixLen == 13

(***************************************************************************)
(* Results of the functions that return (string, error).  A nil-pointer    *)
(* dereference does not return: it unwinds the whole call as a panic.      *)
(***************************************************************************)
E_nil == "nil"
E_link == "can't find link!"
E_commit == "can't find commit!"
E_author == "can't find author!"
E_text == "can't find text!"
E_panic == "panic: nil pointer dereference"
E_fetch == "fetch error"
E_io == "write error"

Ok(v) == [err |-> E_nil, val |-> v]
Fail(e) == [err |-> e, val |-> <<>>]

(***************************************************************************)
(* strings.Index, strings.Contains, strings.Split (separator "\n").        *)
(***************************************************************************)
HasAt(s, sub, k) ==
    /\ k + Len(sub) <= Len(s)
    /\ \A j \in 1..Len(sub) : s[k + j] = sub[j]

strings_Index(s, sub) ==
    LET hits == {k \in 0..Len(s) : HasAt(s, sub, k)}
    IN  IF hits = {} THEN -1
        ELSE CHOOSE k \in hits : \A k2 \in hits : k <= k2

strings_Contains(s, sub) == strings_Index(s, sub) >= 0

RECURSIVE strings_Split(_, _)
strings_Split(s, sep) ==
    LET k == strings_Index(s, sep)
    IN  IF k < 0 THEN <<s>>
        ELSE <<SubSeq(s, 1, k)>>
             \o strings_Split(SubSeq(s, k + Len(sep) + 1, Len(s)), sep)

(***************************************************************************)
(* html.Node                                                               *)
(***************************************************************************)
DocumentNode == "DocumentNode"
ElementNode == "ElementNode"
TextNode == "TextNode"

Doc == [Type |-> DocumentNode, Data |-> <<>>, Attr |-> <<>>, Parent |-> 0]
Elem(tag, attr, parent) ==
    [Type |-> ElementNode, Data |-> tag, Attr |-> attr, Parent |-> parent]
Text(data, parent) ==
    [Type |-> TextNode, Data |-> data, Attr |-> <<>>, Parent |-> parent]

MinOrNil(S) == IF S = {} THEN 0 ELSE CHOOSE x \in S : \A y \in S : x <= y

FirstChild(t, n) == MinOrNil({c \in 1..Len(t) : t[c].Parent = n})

NextSibling(t, n) ==
    MinOrNil({c \in (n + 1)..Len(t) : t[c].Parent = t[n].Parent})

(***************************************************************************)
(* getMainLink: the first <a> in pre-order with an href attribute that     *)
(* contains "/" + branch; the result is prefixed with the site's origin.   *)
(***************************************************************************)
\* getMainLink_attrs with a fault: the attribute's key is not compared with "href".
RECURSIVE getMainLink_attrs_anyKey(_, _, _)
getMainLink_attrs_anyKey(attrs, k, branch) ==
    IF k > Len(attrs) THEN Fail(E_link)
    ELSE IF strings_Contains(attrs[k].Val, S_slash \o branch)
         THEN Ok(attrs[k].Val)
         ELSE getMainLink_attrs_anyKey(attrs, k + 1, branch)

RECURSIVE getMainLink_attrs(_, _, _)
getMainLink_attrs(attrs, k, branch) ==
    IF k > Len(attrs) THEN Fail(E_link)
    ELSE IF attrs[k].Key = S_href /\ strings_Contains(attrs[k].Val, S_slash \o branch)
         THEN Ok(attrs[k].Val)
         ELSE getMainLink_attrs(attrs, k + 1, branch)

RECURSIVE getMainLink_f(_, _, _), getMainLink_children(_, _, _)
getMainLink_f(t, n, branch) ==
    LET hit == IF t[n].Type = ElementNode /\ t[n].Data = S_a
               THEN getMainLink_attrs(t[n].Attr, 1, branch)
               ELSE Fail(E_link)
    IN  IF hit.err = E_nil THEN hit
        ELSE getMainLink_children(t, FirstChild(t, n), branch)

getMainLink_children(t, c, branch) ==
    IF c = 0 THEN Fail(E_link)
    ELSE LET l == getMainLink_f(t, c, branch)
         IN  IF l.err = E_nil THEN l
             ELSE getMainLink_children(t, NextSibling(t, c), branch)

getMainLink(r, branch) ==
    LET s == getMainLink_f(r, 1, branch)
    IN  IF s.err # E_nil THEN Fail(s.err)
        ELSE Ok(S_origin \o s.val)

(***************************************************************************)
(* The label-keyed extractors.  n.Parent.NextSibling.FirstChild.Data       *)
(* dereferences each pointer of the chain without a nil check.             *)
(***************************************************************************)
ValueCell(t, n) ==
    LET sib == NextSibling(t, t[n].Parent)
    IN  IF sib = 0 THEN Fail(E_panic)
        ELSE LET c == FirstChild(t, sib)
             IN  IF c = 0 THEN Fail(E_panic) ELSE Ok(t[c].Data)

ValueCellLink(t, n) ==
    LET sib == NextSibling(t, t[n].Parent)
    IN  IF sib = 0 THEN Fail(E_panic)
        ELSE LET c == FirstChild(t, sib)
             IN  IF c = 0 THEN Fail(E_panic)
                 ELSE LET g == FirstChild(t, c)
                      IN  IF g = 0 THEN Fail(E_panic) ELSE Ok(t[g].Data)

RECURSIVE getCommitHash_f(_, _), getCommitHash_children(_, _)
getCommitHash_f(t, n) ==
    IF t[n].Type = TextNode /\ t[n].Data = S_commit
    THEN ValueCell(t, n)
    ELSE getCommitHash_children(t, FirstChild(t, n))

getCommitHash_children(t, c) ==
    IF c = 0 THEN Fail(E_commit)
    ELSE LET l == getCommitHash_f(t, c)
         IN  IF l.err = E_nil \/ l.err = E_panic THEN l
             ELSE getCommitHash_children(t, NextSibling(t, c))

getCommitHash(r) == getCommitHash_f(r, 1)

RECURSIVE getAuthor_f(_, _), getAuthor_children(_, _)
getAuthor_f(t, n) ==
    IF t[n].Type = TextNode /\ t[n].Data = S_author
    THEN ValueCell(t, n)
    ELSE getAuthor_children(t, FirstChild(t, n))

getAuthor_children(t, c) ==
    IF c = 0 THEN Fail(E_author)
    ELSE LET l == getAuthor_f(t, c)
         IN  IF l.err = E_nil \/ l.err = E_panic THEN l
             ELSE getAuthor_children(t, NextSibling(t, c))

getAuthor(r) == getAuthor_f(r, 1)

RECURSIVE getParentCommitLink_f(_, _), getParentCommitLink_children(_, _)
getParentCommitLink_f(t, n) ==
    IF t[n].Type = TextNode /\ t[n].Data = S_parent
    THEN ValueCellLink(t, n)
    ELSE getParentCommitLink_children(t, FirstChild(t, n))

getParentCommitLink_children(t, c) ==
    IF c = 0 THEN Fail(E_commit)
    ELSE LET l == getParentCommitLink_f(t, c)
         IN  IF l.err = E_nil \/ l.err = E_panic THEN l
             ELSE getParentCommitLink_children(t, NextSibling(t, c))

getParentCommitLink(r, repurl) ==
    LET s == getParentCommitLink_f(r, 1)
    IN  IF s.err # E_nil THEN Fail(s.err)
        ELSE Ok(repurl \o S_plus \o s.val)

(***************************************************************************)
(* getCommitMessage: f searches for a <pre>, f2 concatenates the text      *)
(* under it.  f2 fails on a node with no text below it, and f's loop goes  *)
(* on to the next sibling whenever a subtree fails.                        *)
(***************************************************************************)
RECURSIVE getCommitMessage_f2(_, _), getCommitMessage_f2loop(_, _, _, _)

\* getCommitMessage_f2loop with a fault: the loop returns the first child's text,
\* as the search loops of the other extractors do.
RECURSIVE getCommitMessage_f2loop_firstOnly(_, _, _, _)
getCommitMessage_f2loop_firstOnly(t, c, total, cnt) ==
    IF c = 0 THEN Fail(E_text)
    ELSE LET l == getCommitMessage_f2(t, c)
         IN  IF l.err = E_nil THEN l
             ELSE getCommitMessage_f2loop_firstOnly(t, NextSibling(t, c), total, cnt)

getCommitMessage_f2(t, n) ==
    IF t[n].Type = TextNode THEN Ok(t[n].Data)
    ELSE getCommitMessage_f2loop(t, FirstChild(t, n), <<>>, 0)

getCommitMessage_f2loop(t, c, total, cnt) ==
    IF c = 0
    THEN IF cnt = 0 THEN Fail(E_text) ELSE Ok(total)
    ELSE LET l == getCommitMessage_f2(t, c)
         IN  IF l.err = E_nil
             THEN getCommitMessage_f2loop(t, NextSibling(t, c), total \o l.val, cnt + 1)
             ELSE getCommitMessage_f2loop(t, NextSibling(t, c), total, cnt)

RECURSIVE getCommitMessage_f(_, _), getCommitMessage_children(_, _)
getCommitMessage_f(t, n) ==
    IF t[n].Type = ElementNode /\ t[n].Data = S_pre
    THEN getCommitMessage_f2(t, n)
    ELSE getCommitMessage_children(t, FirstChild(t, n))

getCommitMessage_children(t, c) ==
    IF c = 0 THEN Fail(E_commit)
    ELSE LET l == getCommitMessage_f(t, c)
         IN  IF l.err = E_nil THEN l
             ELSE getCommitMessage_children(t, NextSibling(t, c))

getCommitMessage(r) ==
    LET s == getCommitMessage_f(r, 1)
    IN  IF s.err # E_nil THEN Fail(s.err) ELSE Ok(s.val)

(***************************************************************************)
(* getReviewers                                                            *)
(***************************************************************************)
\* getReviewers_loop with a fault: the prefix may stand anywhere in the line.
RECURSIVE getReviewers_loop_anywhere(_, _, _)
getReviewers_loop_anywhere(lines, k, revs) ==
    IF k > Len(lines) THEN revs
    ELSE LET line == lines[k]
         IN  IF strings_Contains(line, S_reviewedby)
             THEN getReviewers_loop_anywhere(lines, k + 1,
                      Append(revs, SubSeq(line, PrefixLen + 1, Len(line))))
             ELSE getReviewers_loop_anywhere(lines, k + 1, revs)

RECURSIVE getReviewers_loop(_, _, _)
getReviewers_loop(lines, k, revs) ==
    IF k > Len(lines) THEN revs
    ELSE LET line == lines[k]
         IN  IF strings_Contains(line, S_reviewedby)
                /\ strings_Index(line, S_reviewedby) = 0
             THEN getReviewers_loop(lines, k + 1,
                      Append(revs, SubSeq(line, PrefixLen + 1, Len(line))))
             ELSE getReviewers_loop(lines, k + 1, revs)

getReviewers(message) ==
    getReviewers_loop(strings_Split(message, S_newline), 1, <<>>)

(***************************************************************************)
(* Bounded inputs of the extractors: every document of at most k nodes     *)
(* over a set of node kinds.  A node is appended below a node of the       *)
(* rightmost path, so the numbering is the document's pre-order; text      *)
(* nodes have no children.                                                 *)
(***************************************************************************)
RECURSIVE Ancestors(_, _)
Ancestors(t, n) == IF n = 0 THEN {} ELSE {n} \cup Ancestors(t, t[n].Parent)

OpenNodes(t) == {n \in Ancestors(t, Len(t)) : t[n].Type # TextNode}

RECURSIVE TreesOfSize(_, _)
TreesOfSize(kinds, k) ==
    IF k = 1 THEN {<<Doc>>}
    ELSE UNION {{Append(t, [Type |-> nd.Type, Data |-> nd.Data,
                            Attr |-> nd.Attr, Parent |-> q]) :
                     nd \in kinds, q \in OpenNodes(t)} :
                t \in TreesOfSize(kinds, k - 1)}

TreesUpTo(kinds, k) == UNION {TreesOfSize(kinds, j) : j \in 1..k}

Kind(type, data, attr) == [Type |-> type, Data |-> data, Attr |-> attr]
Attribute(key, val) == [Key |-> key, Val |-> val]

S_td == <<"t","d">>
S_div == <<"d","i","v">>
S_x == <<"x">>
S_y == <<"y">>
S_id == <<"i","d">>
B_m == <<"m">>
B_d == <<"d">>
H_m == <<"/","m">>
H_rmd == <<"/","r","/","m","d">>
H_d == <<"/","d">>
H_mslash == <<"m","/">>

LabelKinds ==
    {Kind(ElementNode, S_td, <<>>), Kind(TextNode, S_commit, <<>>),
     Kind(TextNode, S_author, <<>>), Kind(TextNode, S_parent, <<>>),
     Kind(TextNode, S_x, <<>>)}

MsgKinds ==
    {Kind(ElementNode, S_pre, <<>>), Kind(ElementNode, S_div, <<>>),
     Kind(TextNode, S_x, <<>>), Kind(TextNode, S_y, <<>>)}

LinkKinds ==
    {Kind(ElementNode, S_a, <<Attribute(S_href, H_m)>>),
     Kind(ElementNode, S_a, <<Attribute(S_href, H_rmd)>>),
     Kind(ElementNode, S_a, <<Attribute(S_href, H_d)>>),
     Kind(ElementNode, S_a, <<Attribute(S_id, H_m), Attribute(S_href, H_mslash)>>),
     Kind(ElementNode, S_div, <<Attribute(S_href, H_m)>>),
     Kind(ElementNode, S_div, <<>>)}

Branches == {B_m, B_d}

\* The arguments main passes to run.
Repurl == <<"u">>
Branch == B_m
CmtsPath == <<"c","/">>
Outpath == <<"o">>

(***************************************************************************)
(* Bounded inputs of getReviewers: messages put together from at most      *)
(* MaxPieces pieces.                                                       *)
(***************************************************************************)
S_A == <<"A">>
S_B == <<"B">>
S_reviewedbyNoSpace == <<"R","e","v","i","e","w","e","d","-","b","y",":">>
Pieces == {S_reviewedby, S_reviewedbyNoSpace, S_A, S_B, S_newline, S_x}

RECURSIVE MessagesOfPieces(_)
MessagesOfPieces(k) ==
    IF k = 0 THEN {<<>>}
    ELSE {s \o pc0 : s \in MessagesOfPieces(k - 1), pc0 \in Pieces}

MessagesUpTo(n) == UNION {MessagesOfPieces(k) : k \in 0..n}

(***************************************************************************)
(* Calls of the pure functions on bounded inputs.                          *)
(***************************************************************************)
NoTree == <<>>
NoResult == [err |-> "none", val |-> <<>>]
NoCall == "input"

RunIdle ==
    /\ pc = "idle" /\ cnumber = 0 /\ i = 0 /\ m = NoTree /\ p = NoTree
    /\ link = <<>> /\ cmt = <<>> /\ msg = <<>> /\ conts = <<>>
    /\ writes = <<>> /\ fetched = <<>> /\ err = E_nil /\ visited = <<>>
    /\ nCreation = <<>> /\ nReview = <<>>

CallInit == op = NoCall /\ out = NoResult

InitLink ==
    /\ RunIdle /\ CallInit
    /\ tree \in TreesUpTo(LinkKinds, MaxLinkNodes)
    /\ arg \in Branches

Call_getMainLink ==
    /\ op = NoCall
    /\ op' = "getMainLink"
    /\ out' = getMainLink(tree, arg)
    /\ UNCHANGED <<tree, arg>>
    /\ UNCHANGED runVars

SpecLink == InitLink /\ [][Call_getMainLink]_vars

InitLabel ==
    /\ RunIdle /\ CallInit
    /\ tree \in TreesUpTo(LabelKinds, MaxLabelNodes)
    /\ arg = Repurl

Call_getCommitHash ==
    /\ op = NoCall
    /\ op' = "getCommitHash"
    /\ out' = getCommitHash(tree)
    /\ UNCHANGED <<tree, arg>>
    /\ UNCHANGED runVars

Call_getAuthor ==
    /\ op = NoCall
    /\ op' = "getAuthor"
    /\ out' = getAuthor(tree)
    /\ UNCHANGED <<tree, arg>>
    /\ UNCHANGED runVars

Call_getParentCommitLink ==
    /\ op = NoCall
    /\ op' = "getParentCommitLink"
    /\ out' = getParentCommitLink(tree, arg)
    /\ UNCHANGED <<tree, arg>>
    /\ UNCHANGED runVars

NextLabel == Call_getCommitHash \/ Call_getAuthor \/ Call_getParentCommitLink

SpecLabel == InitLabel /\ [][NextLabel]_vars

InitMsg ==
    /\ RunIdle /\ CallInit
    /\ tree \in TreesUpTo(MsgKinds, MaxMsgNodes)
    /\ arg = <<>>

Call_getCommitMessage ==
    /\ op = NoCall
    /\ op' = "getCommitMessage"
    /\ out' = getCommitMessage(tree)
    /\ UNCHANGED <<tree, arg>>
    /\ UNCHANGED runVars

SpecMsg == InitMsg /\ [][Call_getCommitMessage]_vars

InitRev ==
    /\ RunIdle /\ CallInit
    /\ tree = NoTree
    /\ arg \in MessagesUpTo(MaxPieces)

Call_getReviewers ==
    /\ op = NoCall
    /\ op' = "getReviewers"
    /\ out' = Ok(getReviewers(arg))
    /\ UNCHANGED <<tree, arg>>
    /\ UNCHANGED runVars

SpecRev == InitRev /\ [][Call_getReviewers]_vars

(***************************************************************************)
(* The contribution map of run(): conts[author] on a commit, conts[rev]    *)
(* on each reviewer.  `i, v := conts[key]` copies the stored struct, so    *)
(* the increment in the else branch changes the copy and the map keeps the *)
(* value it had.                                                           *)
(***************************************************************************)
Contribution(created, reviewed) == [Created |-> created, Reviewed |-> reviewed]

\* recordCreation with a fault: the entry is assigned whether or not it exists.
recordCreation_overwrite(c, author) ==
    (author :> Contribution(1, 0)) @@ c

recordCreation(c, author) ==
    IF author \notin DOMAIN c
    THEN (author :> Contribution(1, 0)) @@ c
    ELSE LET copy == [c[author] EXCEPT !.Created = @ + 1]
         IN  c

recordReview(c, rev) ==
    IF rev \notin DOMAIN c
    THEN (rev :> Contribution(0, 1)) @@ c
    ELSE LET copy == [c[rev] EXCEPT !.Created = @ + 1]
         IN  c

RECURSIVE recordReviews(_, _, _)
recordReviews(c, reviewers, k) ==
    IF k > Len(reviewers) THEN c
    ELSE recordReviews(recordReview(c, reviewers[k]), reviewers, k + 1)

(***************************************************************************)
(* buildCSVString; `order` is the order in which range visits the map.     *)
(***************************************************************************)
Digits == <<"0","1","2","3","4","5","6","7","8","9">>

RECURSIVE strconv_Itoa(_)
strconv_Itoa(n) ==
    IF n < 10 THEN <<Digits[n + 1]>>
    ELSE strconv_Itoa(n \div 10) \o <<Digits[(n % 10) + 1]>>

RECURSIVE buildCSVString_loop(_, _, _, _)
buildCSVString_loop(c, order, k, str) ==
    IF k > Len(order) THEN str
    ELSE buildCSVString_loop(c, order, k + 1,
             str \o S_newline \o order[k] \o <<",">> \o strconv_Itoa(c[order[k]].Created)
                 \o <<",">> \o strconv_Itoa(c[order[k]].Reviewed))

buildCSVString(c, order) == buildCSVString_loop(c, order, 1, S_csvheader)

MapOrders(c) ==
    {o \in [1..Cardinality(DOMAIN c) -> DOMAIN c] : \A a, b \in DOMAIN o : o[a] = o[b] => a = b}

(***************************************************************************)
(* The pages the remote browser can hand back.  A repository page is a     *)
(* list of anchors; a commit page is the metadata table (a label cell      *)
(* followed by a value cell per row) and the <pre> of the message.  A row  *)
(* or the <pre> can be missing, or present with nothing in it.             *)
(***************************************************************************)
S_th == <<"t","h">>
S_1 == <<"1">>
S_2 == <<"2">>
S_3 == <<"3">>
S_0 == <<"0">>
H_branch == <<"/","r","/","+","/","m">>
H_other == <<"/","r","/","+","/","d">>
M_plain == <<"f","i","x">>
M_reviewed == S_reviewedby \o S_A \o S_newline \o S_reviewedby \o S_B \o S_newline

RECURSIVE RepoPage_loop(_, _, _)
RepoPage_loop(t, hrefs, k) ==
    IF k > Len(hrefs) THEN t
    ELSE RepoPage_loop(t \o <<Elem(S_a, <<Attribute(S_href, hrefs[k])>>, 1),
                              Text(S_x, Len(t) + 1)>>, hrefs, k + 1)

RepoPage(hrefs) == RepoPage_loop(<<Doc>>, hrefs, 1)

RepoPages == {RepoPage(<<>>), RepoPage(<<H_other, H_branch>>)}

Row(t, label, value, shape, nested) ==
    IF shape = "missing" THEN t
    ELSE LET n == Len(t)
             head == t \o <<Elem(S_th, <<>>, 1), Text(label, n + 1), Elem(S_td, <<>>, 1)>>
         IN  IF shape = "empty" THEN head
             ELSE IF nested
                  THEN head \o <<Elem(S_a, <<>>, n + 3), Text(value, n + 4)>>
                  ELSE head \o <<Text(value, n + 3)>>

Pre(t, message, shape) ==
    IF shape = "missing" THEN t
    ELSE IF shape = "empty" THEN Append(t, Elem(S_pre, <<>>, 1))
    ELSE t \o <<Elem(S_pre, <<>>, 1), Text(message, Len(t) + 1)>>

CommitPage(d) ==
    Pre(Row(Row(Row(<<Doc>>, S_commit, d.hash, d.commitRow, FALSE),
                    S_author, d.author, d.authorRow, FALSE),
                S_parent, d.parent, d.parentRow, TRUE),
        d.msg, d.pre)

PageDesc(hash, parent, author, message) ==
    [hash |-> hash, author |-> author, parent |-> parent, msg |-> message,
     commitRow |-> "ok", authorRow |-> "ok", parentRow |-> "ok", pre |-> "ok"]

\* A chain of three commits, 1 -> 2 -> 3 -> 0, each served in two versions.
GoodPages ==
    {PageDesc(S_1, S_2, S_A, M_plain), PageDesc(S_1, S_2, S_A, M_reviewed),
     PageDesc(S_2, S_3, S_B, M_plain), PageDesc(S_2, S_3, S_B, M_reviewed),
     PageDesc(S_3, S_0, S_A, M_plain), PageDesc(S_3, S_0, S_B, M_reviewed)}

BasePage == PageDesc(S_1, S_2, S_A, M_reviewed)

BadPages ==
    {[BasePage EXCEPT !.commitRow = "missing"], [BasePage EXCEPT !.commitRow = "empty"],
     [BasePage EXCEPT !.authorRow = "missing"], [BasePage EXCEPT !.authorRow = "empty"],
     [BasePage EXCEPT !.parentRow = "missing"], [BasePage EXCEPT !.parentRow = "empty"],
     [BasePage EXCEPT !.pre = "missing"], [BasePage EXCEPT !.pre = "empty"],
     [BasePage EXCEPT !.parentRow = "missing", !.commitRow = "empty"]}

CommitPages == GoodPages \cup BadPages

(***************************************************************************)
(* run(): the steps of the traversal.                                      *)
(***************************************************************************)
Halted == {"failed", "panicked", "done"}

\* ReturnErr with a fault: the failing commit is skipped and the loop goes on.
ReturnErr_skip(e, at) ==
    IF at \in {"getCommitHash", "getParentCommitLink", "getCommitMessage", "getAuthor"}
    THEN [pc |-> "write", err |-> E_nil]
    ELSE [pc |-> "failed", err |-> e]

\* `return err` at step `at`; a panic unwinds run() instead of returning.
ReturnErr(e, at) ==
    [pc |-> IF e = E_panic THEN "panicked" ELSE "failed", err |-> e]

\* LoopCond with a fault: one iteration too many.
LoopCond_inclusive(idx, n) == idx <= n

LoopCond(idx, n) == idx < n

Count(f, id) == IF id \in DOMAIN f THEN f[id] ELSE 0
Bump(f, id) == (id :> (Count(f, id) + 1)) @@ f

RECURSIVE BumpAll(_, _, _)
BumpAll(f, ids, k) ==
    IF k > Len(ids) THEN f ELSE BumpAll(Bump(f, ids[k]), ids, k + 1)

Init ==
    /\ pc = "fetchRepo"
    /\ cnumber \in 1..MaxCommits
    /\ i = 0
    /\ m = NoTree /\ p = NoTree
    /\ link = <<>> /\ cmt = <<>> /\ msg = <<>>
    /\ conts = <<>>
    /\ writes = <<>> /\ fetched = <<>>
    /\ err = E_nil
    /\ visited = <<>> /\ nCreation = <<>> /\ nReview = <<>>
    /\ tree = NoTree /\ arg = <<>> /\ CallInit

Abort(e) ==
    /\ pc' = ReturnErr(e, pc).pc
    /\ err' = ReturnErr(e, pc).err

FetchRepo ==
    /\ pc = "fetchRepo"
    /\ fetched' = Append(fetched, Repurl)
    /\ \/ /\ Abort(E_fetch)
          /\ m' = m
       \/ /\ m' \in RepoPages
          /\ pc' = "getMainLink"
          /\ err' = err
    /\ UNCHANGED <<cnumber, i, p, link, cmt, msg, conts, writes, visited,
                   nCreation, nReview>>
    /\ UNCHANGED callVars

GetMainLink ==
    /\ pc = "getMainLink"
    /\ LET r == getMainLink(m, Branch)
       IN  IF r.err # E_nil
           THEN Abort(r.err) /\ link' = link
           ELSE link' = r.val /\ pc' = "loop" /\ err' = err
    /\ UNCHANGED <<cnumber, i, m, p, cmt, msg, conts, writes, fetched, visited,
                   nCreation, nReview>>
    /\ UNCHANGED callVars

LoopTest ==
    /\ pc = "loop"
    /\ pc' = IF LoopCond(i, cnumber) THEN "fetch" ELSE "writeCSV"
    /\ UNCHANGED <<cnumber, i, m, p, link, cmt, msg, conts, writes, fetched, err,
                   visited, nCreation, nReview>>
    /\ UNCHANGED callVars

FetchCommit ==
    /\ pc = "fetch"
    /\ fetched' = Append(fetched, link)
    /\ \/ /\ Abort(E_fetch)
          /\ UNCHANGED <<p, visited>>
       \/ \E d \in CommitPages :
             /\ p' = CommitPage(d)
             /\ visited' = Append(visited, d)
             /\ pc' = "getCommitHash"
             /\ err' = err
    /\ UNCHANGED <<cnumber, i, m, link, cmt, msg, conts, writes, nCreation, nReview>>
    /\ UNCHANGED callVars

GetCommitHash ==
    /\ pc = "getCommitHash"
    /\ LET r == getCommitHash(p)
       IN  IF r.err # E_nil
           THEN Abort(r.err) /\ cmt' = cmt
           ELSE cmt' = r.val /\ pc' = "getParentCommitLink" /\ err' = err
    /\ UNCHANGED <<cnumber, i, m, p, link, msg, conts, writes, fetched, visited,
                   nCreation, nReview>>
    /\ UNCHANGED callVars

GetParentCommitLink ==
    /\ pc = "getParentCommitLink"
    /\ LET r == getParentCommitLink(p, Repurl)
       IN  IF r.err # E_nil
           THEN Abort(r.err) /\ link' = (IF r.err = E_panic THEN link ELSE r.val)
           ELSE link' = r.val /\ pc' = "getCommitMessage" /\ err' = err
    /\ UNCHANGED <<cnumber, i, m, p, cmt, msg, conts, writes, fetched, visited,
                   nCreation, nReview>>
    /\ UNCHANGED callVars

GetCommitMessage ==
    /\ pc = "getCommitMessage"
    /\ LET r == getCommitMessage(p)
       IN  IF r.err # E_nil
           THEN Abort(r.err) /\ msg' = msg
           ELSE msg' = r.val /\ pc' = "getAuthor" /\ err' = err
    /\ UNCHANGED <<cnumber, i, m, p, link, cmt, conts, writes, fetched, visited,
                   nCreation, nReview>>
    /\ UNCHANGED callVars

RecordAuthor ==
    /\ pc = "getAuthor"
    /\ LET r == getAuthor(p)
       IN  IF r.err # E_nil
           THEN Abort(r.err) /\ UNCHANGED <<conts, nCreation>>
           ELSE /\ conts' = recordCreation(conts, r.val)
                /\ nCreation' = Bump(nCreation, r.val)
                /\ pc' = "getReviewers"
                /\ err' = err
    /\ UNCHANGED <<cnumber, i, m, p, link, cmt, msg, writes, fetched, visited, nReview>>
    /\ UNCHANGED callVars

RecordReviewers ==
    /\ pc = "getReviewers"
    /\ LET reviewers == getReviewers(msg)
       IN  /\ conts' = recordReviews(conts, reviewers, 1)
           /\ nReview' = BumpAll(nReview, reviewers, 1)
    /\ pc' = "write"
    /\ UNCHANGED <<cnumber, i, m, p, link, cmt, msg, writes, fetched, err, visited,
                   nCreation>>
    /\ UNCHANGED callVars

WriteCommit ==
    /\ pc = "write"
    /\ \/ /\ Abort(E_io)
          /\ UNCHANGED <<writes, i>>
       \/ /\ writes' = Append(writes, [path |-> CmtsPath \o cmt \o S_dotcommit,
                                       data |-> msg])
          /\ i' = i + 1
          /\ pc' = "loop"
          /\ err' = err
    /\ UNCHANGED <<cnumber, m, p, link, cmt, msg, conts, fetched, visited,
                   nCreation, nReview>>
    /\ UNCHANGED callVars

WriteCSV ==
    /\ pc = "writeCSV"
    /\ \/ /\ Abort(E_io)
          /\ UNCHANGED writes
       \/ \E order \in MapOrders(conts) :
             /\ writes' = Append(writes, [path |-> Outpath,
                                          data |-> buildCSVString(conts, order)])
             /\ pc' = "done"
             /\ err' = err
    /\ UNCHANGED <<cnumber, i, m, p, link, cmt, msg, conts, fetched, visited,
                   nCreation, nReview>>
    /\ UNCHANGED callVars

Next ==
    \/ FetchRepo \/ GetMainLink \/ LoopTest \/ FetchCommit \/ GetCommitHash
    \/ GetParentCommitLink \/ GetCommitMessage \/ RecordAuthor \/ RecordReviewers
    \/ WriteCommit \/ WriteCSV

Spec == Init /\ [][Next]_vars

(***************************************************************************)
(* Properties of the extractors.  Nodes are numbered in document           *)
(* pre-order, so "first in document order" is the least node number.       *)
(***************************************************************************)
NotFoundErrors == {E_link, E_commit, E_author, E_text}

Least(S) == CHOOSE x \in S : \A y \in S : x <= y

IsUnder(t, d, a) == d # a /\ a \in Ancestors(t, d)

TextsUnder(t, a) == {d \in 1..Len(t) : t[d].Type = TextNode /\ IsUnder(t, d, a)}

RECURSIVE ConcatData(_, _)
ConcatData(t, S) ==
    IF S = {} THEN <<>>
    ELSE t[Least(S)].Data \o ConcatData(t, S \ {Least(S)})

ContainsAt(s, sub) ==
    \E k \in 0..Len(s) : k + Len(sub) <= Len(s) /\ SubSeq(s, k + 1, k + Len(sub)) = sub

(* ----------------------------- C8 -------------------------------------- *)
QualifyingAttrs(t, n, branch) ==
    {k \in 1..Len(t[n].Attr) :
        t[n].Attr[k].Key = S_href /\ ContainsAt(t[n].Attr[k].Val, S_slash \o branch)}

QualifyingAnchors(t, branch) ==
    {n \in 1..Len(t) : /\ t[n].Type = ElementNode
                       /\ t[n].Data = S_a
                       /\ QualifyingAttrs(t, n, branch) # {}}

FirstQualifyingHref(t, branch) ==
    LET n == Least(QualifyingAnchors(t, branch))
    IN  t[n].Attr[Least(QualifyingAttrs(t, n, branch))].Val

\* C8 (as stated): findBranchLink returns exactly the href value of the first
\* <a> in document pre-order whose href contains "/" + branch, and fails with a
\* not-found error when the document has no such anchor.
C8_ReturnsExactHref ==
    op = "getMainLink" =>
        IF QualifyingAnchors(tree, arg) = {}
        THEN out.err \in NotFoundErrors
        ELSE out = Ok(FirstQualifyingHref(tree, arg))

\* C8 (amended): the value returned is the site origin
\* "https://chromium.googlesource.com" followed by exactly the href value of
\* the first qualifying <a> in document pre-order; with no qualifying anchor
\* the call fails with a not-found error and returns no default.
C8_ReturnsOriginPlusFirstHref ==
    op = "getMainLink" =>
        IF QualifyingAnchors(tree, arg) = {}
        THEN out = Fail(E_link)
        ELSE out = Ok(S_origin \o FirstQualifyingHref(tree, arg))

\* Two qualifying anchors with different hrefs, and the call has returned.
C8_Witness ==
    /\ op = "getMainLink"
    /\ out.err = E_nil
    /\ \E a, b \in QualifyingAnchors(tree, arg) :
          /\ a < b
          /\ tree[a].Attr # tree[b].Attr

(* ----------------------------- C7 -------------------------------------- *)
PreElements(t) == {n \in 1..Len(t) : t[n].Type = ElementNode /\ t[n].Data = S_pre}

PreWithText(t) == {n \in PreElements(t) : TextsUnder(t, n) # {}}

\* C7 (as stated): getCommitMessage decides on the first <pre> in document
\* pre-order only: it returns the concatenation of the text nodes below that
\* <pre>, and fails if there is no <pre> or if that first <pre> has no text
\* below it.
C7_FirstPreOnly ==
    op = "getCommitMessage" =>
        IF PreElements(tree) = {} \/ TextsUnder(tree, Least(PreElements(tree))) = {}
        THEN out.err \in NotFoundErrors
        ELSE out = Ok(ConcatData(tree, TextsUnder(tree, Least(PreElements(tree)))))

\* C7 (amended): getCommitMessage returns the concatenation, in document order
\* and without separators, of every text node below the first <pre> in document
\* pre-order that has a text node below it; it fails exactly when no <pre> of
\* the document has a text node below it.
C7_FirstPreWithText ==
    op = "getCommitMessage" =>
        IF PreWithText(tree) = {}
        THEN out = Fail(E_commit)
        ELSE out = Ok(ConcatData(tree, TextsUnder(tree, Least(PreWithText(tree)))))

\* The first <pre> has no text, a later one has two text nodes, and the call
\* has returned their concatenation.
C7_Witness ==
    /\ op = "getCommitMessage"
    /\ PreWithText(tree) # {}
    /\ Least(PreElements(tree)) < Least(PreWithText(tree))
    /\ Cardinality(TextsUnder(tree, Least(PreWithText(tree)))) >= 2
    /\ out.err = E_nil

(* ----------------------------- C6 -------------------------------------- *)
LabelOf(call) ==
    CASE call = "getCommitHash" -> S_commit
      [] call = "getAuthor" -> S_author
      [] call = "getParentCommitLink" -> S_parent

LabelNodes(t, label) ==
    {n \in 1..Len(t) : t[n].Type = TextNode /\ t[n].Data = label}

SiblingsAfter(t, n) == {c \in 1..Len(t) : c > n /\ t[c].Parent = t[n].Parent}

ChildrenOf(t, n) == {c \in 1..Len(t) : t[c].Parent = n}

\* The structural chain below the label node n is incomplete.
ChainAbsent(t, n, call) ==
    LET cell == SiblingsAfter(t, t[n].Parent)
    IN  \/ cell = {}
        \/ ChildrenOf(t, Least(cell)) = {}
        \/ /\ call = "getParentCommitLink"
           /\ ChildrenOf(t, Least(ChildrenOf(t, Least(cell)))) = {}

\* C6: when the label text node is found but a link of the structural chain
\* behind it is absent, the label-keyed extractors return a not-found error and
\* never crash.
C6_NotFoundNeverCrash ==
    op \in {"getCommitHash", "getAuthor", "getParentCommitLink"} =>
        LET found == LabelNodes(tree, LabelOf(op))
        IN  (found # {} /\ ChainAbsent(tree, Least(found), op)) =>
                out.err \in NotFoundErrors

(* ----------------------------- C9 -------------------------------------- *)
NewlinePos(s) == {k \in 1..Len(s) : s[k] = "\n"}

LineStarts(s) == {1} \cup {k + 1 : k \in NewlinePos(s)}

LineEnd(s, b) == Least({k \in b..(Len(s) + 1) : k = Len(s) + 1 \/ k \in NewlinePos(s)}) - 1

TrailerStarts(s) ==
    {b \in LineStarts(s) :
        \A j \in 1..Len(S_reviewedby) :
            b + j - 1 <= Len(s) /\ s[b + j - 1] = S_reviewedby[j]}

NthTrailer(s, j) ==
    CHOOSE b \in TrailerStarts(s) : Cardinality({x \in TrailerStarts(s) : x <= b}) = j

\* C9: getReviewers returns, for every "\n"-separated line that starts at
\* offset 0 with "Reviewed-by: ", the rest of the line after the 13-character
\* prefix, in line order and with duplicates kept; no other line contributes.
C9_ReviewersOfTrailerLines ==
    op = "getReviewers" =>
        /\ out.err = E_nil
        /\ Len(out.val) = Cardinality(TrailerStarts(arg))
        /\ \A j \in 1..Len(out.val) :
              out.val[j] = SubSeq(arg, NthTrailer(arg, j) + 13,
                                  LineEnd(arg, NthTrailer(arg, j)))

\* Two trailer lines with different reviewers, returned in line order.
C9_Witness ==
    /\ op = "getReviewers"
    /\ out.val = <<S_A, S_B>>

(***************************************************************************)
(* Properties of the traversal.                                            *)
(***************************************************************************)
Identities == DOMAIN conts

\* C1: after k >= 1 commits authored by an identity and no review by it have
\* been recorded, the map holds {created: k, reviewed: 0} for that identity.
C1_CreationsAccumulate ==
    \A id \in Identities :
        (Count(nCreation, id) >= 1 /\ Count(nReview, id) = 0) =>
            conts[id] = Contribution(Count(nCreation, id), 0)

\* C2: after c creations and r reviews of an identity have been recorded, in
\* any order, the map holds {created: c, reviewed: r} for that identity.
C2_ReviewsAccumulate ==
    \A id \in Identities :
        conts[id] = Contribution(Count(nCreation, id), Count(nReview, id))

\* C3: a run that ends without a failure has fetched the repository page and
\* exactly cnumber commit pages, each at the parent link of the page before it,
\* has written exactly cnumber message files, the k-th named <hash>.commit for
\* the hash of the k-th page and holding its message, and has not fetched the
\* parent link computed in the last iteration.
C3_ExactlyCnumberCycles ==
    pc = "done" =>
        /\ Len(visited) = cnumber
        /\ Len(fetched) = cnumber + 1
        /\ fetched[1] = Repurl
        /\ fetched[2] = S_origin \o FirstQualifyingHref(m, Branch)
        /\ \A k \in 2..cnumber :
              fetched[k + 1] = Repurl \o S_plus \o visited[k - 1].parent
        /\ link = Repurl \o S_plus \o visited[cnumber].parent
        /\ Len(writes) = cnumber + 1
        /\ \A k \in 1..cnumber :
              writes[k] = [path |-> CmtsPath \o visited[k].hash \o S_dotcommit,
                           data |-> visited[k].msg]
        /\ writes[cnumber + 1].path = Outpath

\* A run over three commits of different hashes has ended.
C3_Witness ==
    /\ pc = "done"
    /\ cnumber = 3
    /\ Cardinality({visited[k].hash : k \in 1..3}) = 3
    /\ Cardinality({writes[k].path : k \in 1..4}) = 4

\* The error of the extraction the current step performs ("nil" when the step
\* is no extraction or the extraction succeeds).
ExtractionError ==
    CASE pc = "getMainLink" -> getMainLink(m, Branch).err
      [] pc = "getCommitHash" -> getCommitHash(p).err
      [] pc = "getParentCommitLink" -> getParentCommitLink(p, Repurl).err
      [] pc = "getCommitMessage" -> getCommitMessage(p).err
      [] pc = "getAuthor" -> getAuthor(p).err
      [] OTHER -> E_nil

\* C4: the run stops at the first failure and reports it.  A step whose
\* extraction fails ends the run with that error; the step in which a fetch,
\* an extraction or a write fails (in iteration i) writes nothing and leaves
\* exactly the i commit files of the earlier iterations; and once the run has
\* stopped on a failure nothing is fetched, recorded or written any more.
C4_AbortAtFirstFailure ==
    [][ /\ ExtractionError # E_nil =>
              (pc' \in {"failed", "panicked"} /\ err' = ExtractionError)
        /\ (err = E_nil /\ err' # E_nil) =>
              /\ pc' \in {"failed", "panicked"}
              /\ writes' = writes
              /\ Len(writes) = i
              /\ \A k \in 1..Len(writes) : writes[k].path # Outpath
              /\ conts' = conts
        /\ err # E_nil => UNCHANGED <<writes, fetched, conts, pc, err>>
      ]_vars

\* The second of three commits has no author label: the run has stopped there
\* with one file written.
C4_Witness ==
    /\ pc = "failed"
    /\ err = E_author
    /\ cnumber = 3
    /\ i = 1
    /\ Len(writes) = 1

\* C5: an identity once in the map stays in it, neither of its counts ever
\* decreases from one step to the next, and both counts are >= 0.
C5_MapMonotonic ==
    [][ /\ \A id \in DOMAIN conts :
              /\ id \in DOMAIN conts'
              /\ conts'[id].Created >= conts[id].Created
              /\ conts'[id].Reviewed >= conts[id].Reviewed
        /\ \A id \in DOMAIN conts' :
              conts'[id].Created >= 0 /\ conts'[id].Reviewed >= 0
      ]_vars

\* An identity that reviewed a commit has gone on to author a later one.
C5_Witness ==
    \E id \in Identities :
        /\ Count(nReview, id) >= 1
        /\ Count(nCreation, id) >= 1
        /\ conts[id].Reviewed = 1
        /\ conts[id].Created = 0

\* The number of trailer lines in the messages of the first k pages.
RECURSIVE TrailersOf(_, _)
TrailersOf(pages, k) ==
    IF k = 0 THEN 0
    ELSE Cardinality(TrailerStarts(pages[k].msg)) + TrailersOf(pages, k - 1)

RECURSIVE Total(_, _)
Total(f, ids) ==
    IF ids = {} THEN 0
    ELSE LET id == CHOOSE x \in ids : TRUE IN f[id] + Total(f, ids \ {id})

\* C10: when the commit page of the current iteration has no "parent" label,
\* the iteration gets no further than the parent-link extraction: the run has
\* stopped with a not-found error, or is still at the hash or parent-link
\* extraction; the page's file is not written and its author and reviewers are
\* not recorded.
C10_NoParentAbortsNotFound ==
    (Len(visited) >= 1 /\ LabelNodes(p, S_parent) = {}) =>
        /\ \/ pc \in {"getCommitHash", "getParentCommitLink"}
           \/ pc = "failed" /\ err \in NotFoundErrors
        /\ Len(writes) = Len(visited) - 1
        /\ Total(nCreation, DOMAIN nCreation) = Len(visited) - 1
        /\ Total(nReview, DOMAIN nReview) = TrailersOf(visited, Len(visited) - 1)

====
